---- MODULE Spec2Model ----
(***************************************************************************)
(* Model of fractus/model/bollinger.py: the Bollinger decision cycle       *)
(* (Bollinger.auto), position sizing (_calc_units), window statistics      *)
(* (_calc_window_stat), order risk parameters (_place_order) and the       *)
(* polling loop (open_deals).                                              *)
(*                                                                         *)
(* Numbers.  Python floats are carried as exact rationals [n, d] in lowest *)
(* terms (binary64 rounding is far below the resolution of the inputs the  *)
(* model draws).  The narrow numpy types of the source keep their width:   *)
(* np.float16 and np.float32 round to 11 and 24 significant bits, np.int16 *)
(* and np.int32 narrow to 16 and 32 bits.                                  *)
(***************************************************************************)
EXTENDS Integers, Sequences, FiniteSets, TLC

(***************************************************************************)
(* Rational arithmetic (Python float / numpy float64 arithmetic).          *)
(***************************************************************************)
Abs(a) ==
    IF a < 0 THEN -a ELSE a

Sign(a) ==
    IF a < 0 THEN -1 ELSE IF a > 0 THEN 1 ELSE 0

RECURSIVE Gcd(_, _)
Gcd(a, b) ==
    IF b = 0 THEN a ELSE Gcd(b, a % b)

\* the rational n/d in lowest terms with a positive denominator (d # 0)
R(n, d) ==
    LET g == Gcd(Abs(n), Abs(d))
    IN  [n |-> Sign(d) * (n \div g), d |-> Abs(d) \div g]

RInt(k) ==
    [n |-> k, d |-> 1]

RAdd(x, y) ==
    LET g == Gcd(x.d, y.d)
    IN  R(x.n * (y.d \div g) + y.n * (x.d \div g), (x.d \div g) * y.d)

RNeg(x) ==
    [n |-> -x.n, d |-> x.d]

RSub(x, y) ==
    RAdd(x, RNeg(y))

RMul(x, y) ==
    LET g1 == Gcd(Abs(x.n), y.d)
        g2 == Gcd(Abs(y.n), x.d)
    IN  R((x.n \div g1) * (y.n \div g2), (x.d \div g2) * (y.d \div g1))

\* x / y for y # 0
RDiv(x, y) ==
    RMul(x, [n |-> Sign(y.n) * y.d, d |-> Abs(y.n)])

RLt(x, y) ==
    LET g == Gcd(x.d, y.d)
    IN  x.n * (y.d \div g) < y.n * (x.d \div g)

RLe(x, y) ==
    ~RLt(y, x)

\* np.ceil of a finite value, as an integer
RCeil(x) ==
    -((-x.n) \div x.d)

RFloor(x) ==
    x.n \div x.d

(***************************************************************************)
(* Binary floating point: rounding to p significant bits, ties to even.    *)
(***************************************************************************)
RoundHalfEven(n, d) ==
    LET q == n \div d
        r == n % d
    IN  IF 2 * r < d THEN q
        ELSE IF 2 * r > d THEN q + 1
        ELSE IF q % 2 = 0 THEN q ELSE q + 1

\* the largest j with 2^j dividing d > 0
TwoAdic(d) ==
    CHOOSE j \in 0..30 : d % (2^j) = 0 /\ (d \div (2^j)) % 2 = 1

\* floor(log2(q)) for an integer q >= 1
FloorLog2(q) ==
    CHOOSE e \in 0..30 : q \div (2^e) = 1

\* the least c >= 0 with 2^c >= q, for an integer q >= 1
CeilLog2(q) ==
    IF q = 1 THEN 0 ELSE FloorLog2(q - 1) + 1

\* the exponent e with 2^e <= n/d < 2^(e+1), for n, d > 0
Exponent(n, d) ==
    IF n >= d THEN FloorLog2(n \div d) ELSE -CeilLog2(-((-d) \div n))

\* n/d (n, d > 0) rounded to a multiple of 2^u
RoundToUnit(n, d, u) ==
    IF u >= 0 THEN R(RoundHalfEven(n, d * 2^u) * 2^u, 1)
    ELSE LET j == TwoAdic(d)
         IN  IF j >= -u
             THEN R(RoundHalfEven(n, d \div 2^(-u)), 2^(-u))
             ELSE R(RoundHalfEven(n * 2^(-u - j), d \div 2^j), 2^(-u))

\* a value that already has at most p significant bits is kept as it is
Representable(x, p, emin) ==
    /\ Abs(x.n) < 2^p
    /\ x.d = 2^TwoAdic(x.d)
    /\ TwoAdic(x.d) <= -emin

\* x rounded to p significant bits, with no unit smaller than 2^emin
RoundSig(x, p, emin) ==
    IF x.n = 0 \/ Representable(x, p, emin) THEN x
    ELSE LET e == Exponent(Abs(x.n), x.d)
             u == IF e - p + 1 < emin THEN emin ELSE e - p + 1
             y == RoundToUnit(Abs(x.n), x.d, u)
         IN  [n |-> Sign(x.n) * y.n, d |-> y.d]

\* significand widths and smallest units of IEEE binary16 / binary32
F16Bits == 11
F16MinExp == -24
F16Max == 65504
F32Bits == 24
F32MinExp == -149

Inf(s) ==
    [n |-> s, d |-> 0]

IsFinite(x) ==
    x.d # 0

\* np.float16(x): 11 significant bits; beyond the largest finite value, inf
Float16(x) ==
    LET y == RoundSig(x, F16Bits, F16MinExp)
    IN  IF Abs(y.n) \div y.d > F16Max \/ (Abs(y.n) \div y.d = F16Max /\ Abs(y.n) % y.d # 0)
        THEN Inf(Sign(x.n)) ELSE y

\* np.float32(x): 24 significant bits
Float32(x) ==
    RoundSig(x, F32Bits, F32MinExp)

(***************************************************************************)
(* Integer narrowing.  A float outside the target's range has no defined   *)
(* conversion in C, which numpy's scalar casts compile to: the outcomes    *)
(* are those of the conversion instructions (truncation to the low bits,   *)
(* the "integer indefinite" minimum, or saturation).                       *)
(***************************************************************************)
Int16Min == -32768
Int16Max == 32767
Int32Min == -2147483647 - 1
Int32Max == 2147483647

\* the marker of a value that is not below 2^31
TooBig == -1

\* one base-16 digit of the multiplier: h is floor and remainder so far
MulDivStep(h, a, digit, c) ==
    LET t == 16 * h.r + digit * (a % c)
        qa == a \div c
    IN  IF \/ h.q = TooBig
           \/ (digit > 0 /\ qa > Int32Max \div digit)
           \/ digit * qa > Int32Max - (t \div c)
           \/ h.q > (Int32Max - (digit * qa + (t \div c))) \div 16
        THEN [q |-> TooBig, r |-> 0]
        ELSE [q |-> 16 * h.q + digit * qa + (t \div c), r |-> t % c]

\* floor(a * b / c) and the remainder, for a, b >= 0 and 0 < c < 2^26, or TooBig
RECURSIVE MulDiv(_, _, _)
MulDiv(a, b, c) ==
    IF b = 0 THEN [q |-> 0, r |-> 0]
    ELSE MulDivStep(MulDiv(a, b \div 16, c), a, b % 16, c)

\* np.floor(x / y) for x >= 0 and y > 0, or TooBig
FloorQuot(x, y) ==
    LET g1 == Gcd(x.n, y.n)
        g2 == Gcd(y.d, x.d)
    IN  MulDiv(x.n \div g1, y.d \div g2, (x.d \div g2) * (y.n \div g1)).q

\* np.int32(v) of a float v >= 0 holding an integer
Int32Outcomes(v) ==
    IF v = TooBig THEN {Int32Min, Int32Max} ELSE {v}

Wrap16(v) ==
    (((v % 65536) + 32768) % 65536) - 32768

Sat16(v) ==
    IF v > Int16Max THEN Int16Max ELSE IF v < Int16Min THEN Int16Min ELSE v

\* np.int16(v) of a float v holding an integer
Int16Outcomes(v) ==
    IF v = TooBig THEN {0, Int16Max} ELSE {Wrap16(v), Sat16(v)}

\* np.ceil(x / y) for x >= 0 and y > 0, or TooBig
CeilQuot(x, y) ==
    LET g1 == Gcd(x.n, y.n)
        g2 == Gcd(y.d, x.d)
        h == MulDiv(x.n \div g1, y.d \div g2, (x.d \div g2) * (y.n \div g1))
    IN  IF h.q = TooBig THEN TooBig
        ELSE IF h.r = 0 THEN h.q
        ELSE IF h.q = Int32Max THEN TooBig ELSE h.q + 1

(***************************************************************************)
(* Square root (numpy's std takes the root of the mean squared deviation). *)
(* An exact root is returned exactly; any other root is irrational and is  *)
(* rounded to the nearest value with SqrtBits significant bits.            *)
(***************************************************************************)
RECURSIVE Isqrt(_)
Isqrt(v) ==
    IF v < 2 THEN v
    ELSE LET s == 2 * Isqrt(v \div 4)
         IN  IF (s + 1) * (s + 1) <= v THEN s + 1 ELSE s

IsSquare(v) ==
    Isqrt(v) * Isqrt(v) = v

SqrtBits == 11

\* the nearest integer to sqrt(v)
NearSqrt(v) ==
    LET s == Isqrt(v)
    IN  IF v - s * s > s THEN s + 1 ELSE s

\* floor((n/d) * 4^k) for n, d > 0
ScaleBy4(n, d, k) ==
    IF k <= 0 THEN n \div (d * 4^(-k))
    ELSE LET j == TwoAdic(d)
         IN  IF j >= 2 * k THEN n \div (d \div 4^k)
             ELSE (n * 2^(2 * k - j)) \div (d \div 2^j)

\* sqrt(n/d) to SqrtBits significant bits: the root of (n/d) * 4^k, over 2^k
SqrtScaled(n, d) ==
    LET e == Exponent(n, d)
        k == (SqrtBits - 1) - (e \div 2)
        s == NearSqrt(ScaleBy4(n, d, k))
    IN  IF k >= 0 THEN R(s, 2^k) ELSE R(s * 2^(-k), 1)

\* np.sqrt(x) for x >= 0
RSqrt(x) ==
    IF x.n = 0 THEN x
    ELSE IF IsSquare(x.n) /\ IsSquare(x.d) THEN R(Isqrt(x.n), Isqrt(x.d))
    ELSE SqrtScaled(x.n, x.d)

(***************************************************************************)
(* State.                                                                  *)
(***************************************************************************)
VARIABLES
    account_currency,   \* self.account_currency
    instrument_list,    \* self.instrument_list
    margin_ratio,       \* self.margin_ratio
    model,              \* self.model
    insts,              \* open_deals: the instruments of the run
    n,                  \* open_deals: the iteration count
    i,                  \* open_deals: the loop index
    k,                  \* open_deals: position in insts of the comprehension
    flags,              \* open_deals: the 'halted' values collected this iteration
    sleeps,             \* open_deals: time.sleep(interval) calls made so far
    iters,              \* open_deals: bodies of the for loop entered so far
    evals,              \* open_deals: the deal.auto calls of this iteration
    pc,                 \* the statement about to run
    instrument,         \* auto: its argument
    rate,               \* auto: instrument metadata fetched by _get_rate
    prices,             \* auto: quotes fetched by _get_prices
    margin,             \* auto: margin fetched by _get_margin
    bp,                 \* _calc_units: the conversion price
    units,              \* auto: the result of _calc_units
    window,             \* auto: the history fetched by _get_window
    ws,                 \* auto: the result of _calc_window_stat
    side,               \* _place_order: its side argument
    clock,              \* auto: datetime.now() - t0 in tenths of a second while a
                        \* _sleep(last=t0) call or the fetch it paces is ahead
    naps,               \* auto: the time.sleep calls _sleep has made up to there
    orders,             \* create_order calls of this evaluation
    outcome,            \* the message auto printed
    error,              \* the FractError raised, "" when none
    trace,              \* the steps this evaluation has performed
    account             \* the broker: the account as it stands now

self == <<account_currency, instrument_list, margin_ratio, model>>
loop == <<insts, n, i, k, flags, sleeps, iters, evals>>
locals == <<instrument, rate, prices, margin, bp, units, window, ws, side>>
pace == <<clock, naps>>
broker == <<account>>
vars == <<self, loop, pc, locals, pace, orders, outcome, error, trace, broker>>

(***************************************************************************)
(* Instrument names: 'USD_JPY' is the token sequence <<"USD","_","JPY">>.  *)
(***************************************************************************)
\* '_'.join(p)
Join(p) ==
    <<p[1], "_", p[2]>>

\* inst.split('_')
Split(inst) ==
    SelectSeq(inst, LAMBDA t : t # "_")

\* None
None == <<>>

Zero == RInt(0)

Range(f) ==
    {f[x] : x \in DOMAIN f}

(***************************************************************************)
(* Bollinger._get_prices, _get_margin, _get_window: the shape given to the *)
(* broker's answers.                                                       *)
(***************************************************************************)
\* quotes: instrument -> [bid, ask] as the broker reports them
GetPrices(quotes) ==
    [p \in DOMAIN quotes |->
        [bid |-> quotes[p].bid,
         ask |-> quotes[p].ask,
         spread |-> Float32(RSub(quotes[p].ask, quotes[p].bid))]]

GetMargin(a) ==
    [avail |-> a.marginAvail,
     used |-> a.marginUsed,
     total |-> RAdd(a.marginAvail, a.marginUsed)]

GetWindow(inst, candles) ==
    [instrument |-> inst, midpoints |-> candles]

(***************************************************************************)
(* Bollinger._calc_units                                                   *)
(***************************************************************************)
\* the two cross instruments looked up, each None when not known
InstBp(cur_pair) ==
    LET pairs == <<Join(<<cur_pair[2], account_currency>>),
                   Join(<<account_currency, cur_pair[2]>>)>>
    IN  [j \in 1..2 |-> IF pairs[j] \in Range(instrument_list) THEN pairs[j] ELSE None]

\* a resolution that tries the pair (account, quote) before (quote, account)
CalcBpSecondFirst(r, pr) ==
    LET inst == r.instrument
        cur_pair == Split(inst)
        inst_bp == InstBp(cur_pair)
    IN  IF cur_pair[1] = account_currency
        THEN [err |-> "", bp |-> RDiv(RInt(1), pr[inst].ask)]
        ELSE IF cur_pair[2] = account_currency
        THEN [err |-> "", bp |-> pr[inst].ask]
        ELSE IF inst_bp[2] # None
        THEN [err |-> "", bp |-> RDiv(pr[inst].ask, pr[inst_bp[2]].ask)]
        ELSE IF inst_bp[1] # None
        THEN [err |-> "", bp |-> RMul(pr[inst].ask, pr[inst_bp[1]].ask)]
        ELSE [err |-> "invalid instruments", bp |-> Zero]

\* a resolution that divides by the first cross instrument's ask
CalcBpDivides(r, pr) ==
    LET inst == r.instrument
        cur_pair == Split(inst)
        inst_bp == InstBp(cur_pair)
    IN  IF cur_pair[1] = account_currency
        THEN [err |-> "", bp |-> RDiv(RInt(1), pr[inst].ask)]
        ELSE IF cur_pair[2] = account_currency
        THEN [err |-> "", bp |-> pr[inst].ask]
        ELSE IF inst_bp[1] # None
        THEN [err |-> "", bp |-> RDiv(pr[inst].ask, pr[inst_bp[1]].ask)]
        ELSE IF inst_bp[2] # None
        THEN [err |-> "", bp |-> RDiv(pr[inst].ask, pr[inst_bp[2]].ask)]
        ELSE [err |-> "invalid instruments", bp |-> Zero]

\* the conversion price bp, or the FractError raised
CalcBp(r, pr) ==
    LET inst == r.instrument
        cur_pair == Split(inst)
        inst_bp == InstBp(cur_pair)
    IN  IF cur_pair[1] = account_currency
        THEN [err |-> "", bp |-> RDiv(RInt(1), pr[inst].ask)]
        ELSE IF cur_pair[2] = account_currency
        THEN [err |-> "", bp |-> pr[inst].ask]
        ELSE IF inst_bp[1] # None
        THEN [err |-> "", bp |-> RMul(pr[inst].ask, pr[inst_bp[1]].ask)]
        ELSE IF inst_bp[2] # None
        THEN [err |-> "", bp |-> RDiv(pr[inst].ask, pr[inst_bp[2]].ask)]
        ELSE [err |-> "invalid instruments", bp |-> Zero]

\* mg: every margin ratio times the total margin
Mg(m) ==
    [key \in DOMAIN margin_ratio |-> RMul(margin_ratio[key], RAdd(m.avail, m.used))]

MgPerUnit(b, r) ==
    RMul(b, r.marginRate)

\* a margin test that also passes when the two sides are equal
MarginSufficientOrEqual(m) ==
    RLe(Mg(m).ticket, RSub(m.avail, Mg(m).preserve))

\* mg['ticket'] < (margin['avail'] - mg['preserve'])
MarginSufficient(m) ==
    RLt(Mg(m).ticket, RSub(m.avail, Mg(m).preserve))

\* the clipping of the narrowed floor value u to maxTradeUnits
ClipUnits(u, r) ==
    IF u <= r.maxTradeUnits THEN u ELSE r.maxTradeUnits

\* the values _calc_units can return once bp is resolved
UnitsOutcomes(b, r, m) ==
    IF MarginSufficient(m)
    THEN {ClipUnits(u, r) : u \in Int32Outcomes(FloorQuot(Mg(m).ticket, MgPerUnit(b, r)))}
    ELSE {0}

(***************************************************************************)
(* Bollinger._calc_window_stat                                             *)
(***************************************************************************)
\* the sum of xs[lo..hi], by halves
RECURSIVE RSumRange(_, _, _)
RSumRange(xs, lo, hi) ==
    IF lo > hi THEN Zero
    ELSE IF lo = hi THEN xs[lo]
    ELSE RAdd(RSumRange(xs, lo, (lo + hi) \div 2),
              RSumRange(xs, (lo + hi) \div 2 + 1, hi))

RSum(xs) ==
    RSumRange(xs, 1, Len(xs))

\* ndarray.mean()
Mean(xs) ==
    RDiv(RSum(xs), RInt(Len(xs)))

\* ndarray.std(): population standard deviation, divisor N
Std(xs) ==
    LET m == Mean(xs)
        sq == [j \in 1..Len(xs) |-> RMul(RSub(xs[j], m), RSub(xs[j], m))]
    IN  RSqrt(Mean(sq))

\* a size test that accepts a window of any length
WindowSizeAny(w) ==
    TRUE

\* window['midpoints'].shape[0] == self.model['window']['size']
WindowSizeMatched(w) ==
    Len(w.midpoints) = model.window.size

\* the statistics returned when the window size matches
WindowStat(w) ==
    LET l == w.midpoints[Len(w.midpoints)]
        m == Mean(w.midpoints)
        sd == Std(w.midpoints)
        t == model.sigma.entry_trigger
    IN  [instrument |-> w.instrument,
         last |-> Float32(l),
         mean |-> Float32(m),
         std |-> Float32(sd),
         up_bound |-> Float32(RAdd(m, RMul(sd, t))),
         low_bound |-> Float32(RSub(m, RMul(sd, t)))]

(***************************************************************************)
(* Bollinger._place_order                                                  *)
(***************************************************************************)
\* the clamping of the narrowed pip count ts into the instrument's limits
ClampTrailingStop(ts, r) ==
    IF ts > r.maxTrailingStop THEN Int16Outcomes(r.maxTrailingStop)
    ELSE IF ts < r.minTrailingStop THEN Int16Outcomes(r.minTrailingStop)
    ELSE {ts}

\* np.ceil((trail_p + pr['spread']) / np.float32(rate['pip']))
TrailingCeil(sd, pr, r) ==
    CeilQuot(RAdd(RMul(sd, model.sigma.trailing_stop), pr[r.instrument].spread),
             Float32(r.pip))

\* the values trailing_stop can take
TrailingStops(sd, pr, r) ==
    UNION {ClampTrailingStop(ts, r) : ts \in Int16Outcomes(TrailingCeil(sd, pr, r))}

StopLoss(sd, q, sd_side) ==
    IF sd_side = "buy"
    THEN Float16(RSub(q.ask, RMul(sd, model.sigma.stop_loss)))
    ELSE Float16(RAdd(q.bid, RMul(sd, model.sigma.stop_loss)))

TakeProfit(sd, q, sd_side) ==
    IF sd_side = "buy"
    THEN Float16(RAdd(q.ask, RMul(sd, model.sigma.take_profit)))
    ELSE Float16(RSub(q.bid, RMul(sd, model.sigma.take_profit)))

\* a side test that lets every value through to the sell branch
ValidSideAny(sd_side) ==
    TRUE

\* side == 'buy' / side == 'sell', anything else raising 'invalid side'
ValidSide(sd_side) ==
    sd_side \in {"buy", "sell"}

\* the create_order calls _place_order can make for a valid side
PlaceOrder(sd, pr, r, sd_side, u) ==
    {[units |-> u,
      instrument |-> r.instrument,
      side |-> sd_side,
      takeProfit |-> TakeProfit(sd, pr[r.instrument], sd_side),
      stopLoss |-> StopLoss(sd, pr[r.instrument], sd_side),
      trailingStop |-> ts,
      type |-> "market"] : ts \in TrailingStops(sd, pr, r)}

(***************************************************************************)
(* Bounds and the answers the broker can give.                             *)
(***************************************************************************)
\* model['window']['size']
WindowSize == 20
\* the largest iteration count n of a run
MaxIter == 2

USD_JPY == <<"USD", "_", "JPY">>
EUR_JPY == <<"EUR", "_", "JPY">>
JPY_EUR == <<"JPY", "_", "EUR">>

NoRate ==
    [instrument |-> None, pip |-> Zero, maxTradeUnits |-> 0, maxTrailingStop |-> 0,
     minTrailingStop |-> 0, marginRate |-> Zero, halted |-> FALSE]

NoMargin ==
    [avail |-> Zero, used |-> Zero, total |-> Zero]

NoWindow ==
    [instrument |-> None, midpoints |-> <<>>]

NoStat ==
    [instrument |-> None, last |-> Zero, mean |-> Zero, std |-> Zero,
     up_bound |-> Zero, low_bound |-> Zero]

\* no quotes fetched yet
NoPrices == <<>>

Sigma(ms, et, ts, sl, tp) ==
    [max_spread |-> ms, entry_trigger |-> et, trailing_stop |-> ts,
     stop_loss |-> sl, take_profit |-> tp]

Model(size, sigma) ==
    [window |-> [granularity |-> "M1", size |-> size], sigma |-> sigma]

Models ==
    {Model(WindowSize, Sigma(R(1, 2), RInt(2), RInt(3), RInt(2), RInt(4))),
     Model(WindowSize, Sigma(RInt(1), RInt(5), RInt(2), RInt(1), RInt(1)))}

MarginRatios ==
    {[ticket |-> R(1, 100), preserve |-> R(1, 2)]}

AccountCurrencies ==
    {"USD", "JPY", "GBP"}

InstrumentLists ==
    {<<USD_JPY, EUR_JPY>>}

\* instruments if instruments else config['trade']['instruments']
Insts(instruments, configured) ==
    IF instruments # <<>> THEN instruments ELSE configured

\* the instruments argument, and the list the configuration holds
Instruments ==
    {<<>>, <<USD_JPY>>}

Configured ==
    {<<>>, <<USD_JPY, EUR_JPY>>}

InstrumentSets ==
    {Insts(a, c) : a \in Instruments, c \in Configured}

\* the argument n of open_deals
Iterations ==
    -1..MaxIter

\* get_instruments: the metadata of one instrument
Rates(inst) ==
    {[instrument |-> inst, pip |-> R(1, 100), maxTradeUnits |-> mtu,
      maxTrailingStop |-> 10000, minTrailingStop |-> 5,
      marginRate |-> R(1, 50), halted |-> h] :
        mtu \in {1000, 10000000}, h \in BOOLEAN}

Quote(bid, ask) ==
    [bid |-> bid, ask |-> ask]

\* get_prices: one quote for every instrument of the account
Quotes ==
    {[p \in Range(instrument_list) |-> q] :
        q \in {Quote(RInt(110), R(3521, 32)),
               Quote(RInt(110), RInt(112)),
               Quote(RInt(110), RInt(110))}}

Account(avail, used) ==
    [marginAvail |-> avail, marginUsed |-> used]

\* get_account: margin available and used
Accounts ==
    {Account(RInt(50000), RInt(0)),
     Account(RInt(1000), RInt(60000)),
     Account(R(1, 100), RInt(0)),
     Account(RInt(40000000), RInt(0))}

Flat(len, base) ==
    [j \in 1..len |-> base]

Jump(len, base, last) ==
    [j \in 1..len |-> IF j = len THEN last ELSE base]

Zigzag(len, low, high) ==
    [j \in 1..len |-> IF j % 2 = 1 THEN low ELSE high]

\* get_history: the closeMid values of the candles returned
Candles ==
    {Flat(WindowSize, RInt(110)),
     Flat(WindowSize, R(1103, 10)),
     Jump(WindowSize, RInt(110), RInt(111)),
     Jump(WindowSize, RInt(110), RInt(109)),
     Zigzag(WindowSize, RInt(109), RInt(111)),
     Jump(WindowSize - 1, RInt(110), RInt(111)),
     Jump(WindowSize + 1, RInt(110), RInt(111))}

\* create_order: the margin figures the broker can hold once the order is in
AccountsAfterOrder(a) ==
    Accounts \ {a}

\* the time a broker call takes, in tenths of a second
Latencies ==
    {0, 5}

(***************************************************************************)
(* Init: the state after Bollinger.__init__, at the head of open_deals'    *)
(* loop.                                                                   *)
(***************************************************************************)
NoLocals ==
    /\ instrument = None
    /\ rate = NoRate
    /\ prices = NoPrices
    /\ margin = NoMargin
    /\ bp = Zero
    /\ units = 0
    /\ window = NoWindow
    /\ ws = NoStat
    /\ side = ""

Init ==
    /\ account_currency \in AccountCurrencies
    /\ instrument_list \in InstrumentLists
    /\ margin_ratio \in MarginRatios
    /\ model \in Models
    /\ insts \in InstrumentSets
    /\ n \in Iterations
    /\ i = 0
    /\ k = 0
    /\ flags = <<>>
    /\ sleeps = 0
    /\ iters = 0
    /\ evals = <<>>
    /\ pc = "for"
    /\ NoLocals
    /\ account \in Accounts
    /\ clock = 0
    /\ naps = <<>>
    /\ orders = <<>>
    /\ outcome = ""
    /\ error = ""
    /\ trace = <<>>

(***************************************************************************)
(* open_deals                                                              *)
(***************************************************************************)
\* for i in range(n): start the comprehension over insts
ForNext ==
    /\ pc = "for"
    /\ IF i < n
       THEN /\ pc' = "comp"
            /\ k' = 1
            /\ flags' = <<>>
            /\ iters' = iters + 1
            /\ evals' = <<>>
       ELSE /\ pc' = "done"
            /\ UNCHANGED <<k, flags, iters, evals>>
    /\ UNCHANGED <<self, broker, insts, n, i, sleeps, locals, pace, orders, outcome, error,
                   trace>>

\* an all() that wants at least one value
AllHaltedSome(fl) ==
    Len(fl) > 0 /\ \A j \in 1..Len(fl) : fl[j]

\* all([...]) over the 'halted' values of one iteration
AllHalted(fl) ==
    \A j \in 1..Len(fl) : fl[j]

\* a comprehension that stops at the first instrument that is not halted
MoreInstsWhileHalted ==
    k <= Len(insts) /\ AllHalted(flags)

\* for inst in insts: the list is built in full before all() looks at it
MoreInsts ==
    k <= Len(insts)

\* the comprehension calls deal.auto(instrument=inst) for the next inst
CompNext ==
    /\ pc = "comp"
    /\ IF MoreInsts
       THEN /\ pc' = "get_rate"
            /\ instrument' = insts[k]
            /\ evals' = Append(evals, insts[k])
            /\ clock' = 0
            /\ naps' = <<>>
            /\ orders' = <<>>
            /\ outcome' = ""
            /\ trace' = <<>>
       ELSE /\ pc' = "all"
            /\ UNCHANGED <<instrument, evals, pace, orders, outcome, trace>>
    /\ UNCHANGED <<self, broker, insts, n, i, k, flags, sleeps, iters, rate, prices, margin,
                   bp, units, window, ws, side, error>>

\* a loop that only stops when its iterations are used up
BreakAtEndOnly(halted) ==
    i = n - 1

\* if halted or i == n - 1: break
Break(halted) ==
    halted \/ i = n - 1

\* halted = all([...]); if halted or i == n - 1: break
CheckBreak ==
    /\ pc = "all"
    /\ pc' = IF Break(AllHalted(flags)) THEN "done" ELSE "sleep"
    /\ UNCHANGED <<self, broker, loop, locals, pace, orders, outcome, error, trace>>

\* time.sleep(interval), then the next iteration
Sleep ==
    /\ pc = "sleep"
    /\ sleeps' = sleeps + 1
    /\ i' = i + 1
    /\ pc' = "for"
    /\ UNCHANGED <<self, broker, insts, n, k, flags, iters, evals, locals, pace, orders, outcome,
                   error, trace>>

(***************************************************************************)
(* Bollinger.auto                                                          *)
(***************************************************************************)
\* sec=0.5 and sec=1 of the _sleep calls, in tenths of a second
HalfSecond == 5
OneSecond == 10

\* a rest that ignores the time already spent
RestFull(sec, now) ==
    sec

\* rest = sec - (datetime.now() - last).total_seconds()
Rest(sec, now) ==
    sec - now

\* _sleep(last=t0, sec) called when the clock reads now: the clock and the
\* time.sleep calls afterwards
SleepUntil(sec, now) ==
    LET rest == Rest(sec, now)
    IN  IF rest > 0
        THEN [clock |-> now + rest,
              naps |-> Append(naps, [sec |-> sec, at |-> now, rest |-> rest])]
        ELSE [clock |-> now, naps |-> naps]

\* an exception handler that lets the evaluation return as if nothing happened
RaisedAndCaught ==
    "return"

\* where an exception leaves the run: neither auto nor open_deals has a
\* try statement, so it leaves both
Raised ==
    "failed"

\* the exception of a failed broker call
BrokerError ==
    "OandaError"

\* a call of the oandapy API raises instead of returning
BrokerFails(call) ==
    /\ error' = BrokerError
    /\ trace' = Append(trace, call)
    /\ pc' = Raised
    /\ UNCHANGED <<self, broker, loop, locals, pace, orders, outcome>>

\* rate = self._get_rate(instrument=instrument)
AutoGetRate ==
    /\ pc = "get_rate"
    /\ \/ BrokerFails("get_instruments")
       \/ /\ \E r \in Rates(instrument) : rate' = r
          /\ \E d \in Latencies : clock' = clock + d
          /\ trace' = Append(trace, "get_instruments")
          /\ pc' = "check_halted"
          /\ UNCHANGED <<naps, self, broker, loop, instrument, prices, margin, bp, units, window, ws,
                         side, orders, outcome, error>>

\* a halted test that lets every instrument through
HaltedIgnored(r) ==
    FALSE

\* rate['halted']
Halted(r) ==
    r.halted

\* if rate['halted']: print 'Skip for trading halted.'
AutoCheckHalted ==
    /\ pc = "check_halted"
    /\ IF Halted(rate)
       THEN /\ outcome' = "Skip for trading halted."
            /\ clock' = SleepUntil(HalfSecond, clock).clock
            /\ naps' = SleepUntil(HalfSecond, clock).naps
            /\ pc' = "return"
       ELSE /\ pc' = "get_prices"
            /\ UNCHANGED <<outcome, pace>>
    /\ UNCHANGED <<self, broker, loop, locals, orders, error, trace>>

\* prices = self._get_prices()
AutoGetPrices ==
    /\ pc = "get_prices"
    /\ \/ BrokerFails("get_prices")
       \/ /\ \E q \in Quotes : prices' = GetPrices(q)
          /\ \E d \in Latencies :
                /\ clock' = SleepUntil(HalfSecond, clock + d).clock
                /\ naps' = SleepUntil(HalfSecond, clock + d).naps
          /\ trace' = Append(trace, "get_prices")
          /\ pc' = "get_margin"
          /\ UNCHANGED <<self, broker, loop, instrument, rate, margin, bp, units, window, ws,
                         side, orders, outcome, error>>

\* an account read that answers with figures obtained earlier
GetAccountStale ==
    CHOOSE a \in Accounts : TRUE

\* self.get_account(account_id=self.account_id): the account as it stands
GetAccount ==
    account

\* margin=self._get_margin(), the argument of the _calc_units call
AutoGetMargin ==
    /\ pc = "get_margin"
    /\ \/ BrokerFails("get_account")
       \/ /\ margin' = GetMargin(GetAccount)
          /\ \E d \in Latencies : clock' = clock + d
          /\ trace' = Append(trace, "get_account")
          /\ pc' = "calc_units"
          /\ UNCHANGED <<naps, self, broker, loop, instrument, rate, prices, bp, units, window, ws,
                         side, orders, outcome, error>>

\* units = self._calc_units(rate=rate, prices=prices, margin=margin)
AutoCalcUnits ==
    /\ pc = "calc_units"
    /\ trace' = Append(trace, "_calc_units")
    /\ LET b == CalcBp(rate, prices)
       IN  IF b.err # ""
           THEN /\ error' = b.err
                /\ pc' = Raised
                /\ UNCHANGED <<bp, units, pace>>
           ELSE /\ bp' = b.bp
                /\ \E u \in UnitsOutcomes(b.bp, rate, margin) : units' = u
                /\ clock' = SleepUntil(OneSecond, clock).clock
                /\ naps' = SleepUntil(OneSecond, clock).naps
                /\ pc' = "check_units"
                /\ UNCHANGED error
    /\ UNCHANGED <<self, broker, loop, instrument, rate, prices, margin, window, ws, side,
                   orders, outcome>>

\* a margin test that lets a zero unit count through
LackOfMarginIgnored(u) ==
    FALSE

\* units == 0
LackOfMargin(u) ==
    u = 0

\* if units == 0: print 'Skip for lack of margin.'
AutoCheckUnits ==
    /\ pc = "check_units"
    /\ IF LackOfMargin(units)
       THEN /\ outcome' = "Skip for lack of margin."
            /\ pc' = "return"
       ELSE /\ pc' = "get_window"
            /\ UNCHANGED outcome
    /\ UNCHANGED <<self, broker, loop, locals, pace, orders, error, trace>>

\* window=self._get_window(instrument=instrument)
AutoGetWindow ==
    /\ pc = "get_window"
    /\ \/ BrokerFails("get_history")
       \/ /\ \E c \in Candles : window' = GetWindow(instrument, c)
          /\ clock' = 0
          /\ naps' = <<>>
          /\ trace' = Append(trace, "get_history")
          /\ pc' = "calc_window_stat"
          /\ UNCHANGED <<self, broker, loop, instrument, rate, prices, margin, bp, units, ws,
                         side, orders, outcome, error>>

\* ws = self._calc_window_stat(window=window)
AutoCalcWindowStat ==
    /\ pc = "calc_window_stat"
    /\ trace' = Append(trace, "_calc_window_stat")
    /\ IF WindowSizeMatched(window)
       THEN /\ ws' = WindowStat(window)
            /\ pc' = "decide"
            /\ UNCHANGED error
       ELSE /\ error' = "window size not matched"
            /\ pc' = Raised
            /\ UNCHANGED ws
    /\ UNCHANGED <<self, broker, loop, instrument, rate, prices, margin, bp, units, window, side,
                   pace, orders, outcome>>

\* max_spread = ws['std'] * self.model['sigma']['max_spread']
MaxSpread(w) ==
    RMul(w.std, model.sigma.max_spread)

\* prices[instrument]['spread'] > max_spread
SpreadTooLarge(pr, inst, w) ==
    RLt(MaxSpread(w), pr[inst].spread)

\* a band test that also fires on the bound itself
AboveOrOnBand(w) ==
    RLe(w.up_bound, w.last)

\* ws['last'] > ws['up_bound']
AboveBand(w) ==
    RLt(w.up_bound, w.last)

\* a band test that also fires on the bound itself
BelowOrOnBand(w) ==
    RLe(w.last, w.low_bound)

\* ws['last'] < ws['low_bound']
BelowBand(w) ==
    RLt(w.last, w.low_bound)

\* the if / elif chain on the spread and the band
AutoDecide ==
    /\ pc = "decide"
    /\ trace' = Append(trace, "decide")
    /\ IF SpreadTooLarge(prices, instrument, ws)
       THEN /\ outcome' = "Skip for large spread."
            /\ pc' = "return"
            /\ UNCHANGED side
       ELSE IF AboveBand(ws)
       THEN /\ side' = "buy"
            /\ pc' = "place_order"
            /\ UNCHANGED outcome
       ELSE IF BelowBand(ws)
       THEN /\ side' = "sell"
            /\ pc' = "place_order"
            /\ UNCHANGED outcome
       ELSE /\ outcome' = "Skip by the criteria."
            /\ pc' = "return"
            /\ UNCHANGED side
    /\ UNCHANGED <<self, broker, loop, instrument, rate, prices, margin, bp, units, window, ws,
                   pace, orders, error>>

\* od = self._place_order(sd=ws['std'], prices, rate, side, units); print
AutoPlaceOrder ==
    /\ pc = "place_order"
    /\ IF ValidSide(side)
       THEN \/ /\ \E od \in PlaceOrder(ws.std, prices, rate, side, units) :
                    orders' = Append(orders, od)
               /\ account' \in AccountsAfterOrder(account)
               /\ trace' = trace \o <<"_place_order", "create_order">>
               /\ outcome' = IF side = "buy" THEN "Buy" ELSE "Sell"
               /\ pc' = "return"
               /\ UNCHANGED error
            \/ /\ error' = BrokerError
               /\ trace' = trace \o <<"_place_order", "create_order">>
               /\ pc' = Raised
               /\ UNCHANGED <<orders, outcome, broker>>
       ELSE /\ error' = "invalid side"
            /\ trace' = Append(trace, "_place_order")
            /\ pc' = Raised
            /\ UNCHANGED <<orders, outcome, broker>>
    /\ UNCHANGED <<self, loop, locals, pace>>

\* return rate: its 'halted' value joins the comprehension's list
AutoReturn ==
    /\ pc = "return"
    /\ flags' = Append(flags, rate.halted)
    /\ k' = k + 1
    /\ pc' = "comp"
    /\ instrument' = None
    /\ rate' = NoRate
    /\ prices' = NoPrices
    /\ margin' = NoMargin
    /\ bp' = Zero
    /\ units' = 0
    /\ window' = NoWindow
    /\ ws' = NoStat
    /\ side' = ""
    /\ clock' = 0
    /\ naps' = <<>>
    /\ UNCHANGED <<self, broker, insts, n, i, sleeps, iters, evals, orders, outcome, error,
                   trace>>

Next ==
    \/ ForNext
    \/ CompNext
    \/ CheckBreak
    \/ Sleep
    \/ AutoGetRate
    \/ AutoCheckHalted
    \/ AutoGetPrices
    \/ AutoGetMargin
    \/ AutoCalcUnits
    \/ AutoCheckUnits
    \/ AutoGetWindow
    \/ AutoCalcWindowStat
    \/ AutoDecide
    \/ AutoPlaceOrder
    \/ AutoReturn

Spec ==
    Init /\ [][Next]_vars

(***************************************************************************)
(* Claims about one evaluation (Bollinger.auto), checked under Spec.       *)
(***************************************************************************)
\* the evaluation has returned normally and its result is still in place
Returned ==
    pc = "return"

\* C1: an evaluation whose metadata reports halted prints the halted skip
\* and does nothing else: the only broker call is the metadata fetch, no
\* quotes, margin or history are fetched, no units or statistics are
\* computed and no order is submitted.
C1_HaltedSkips ==
    rate.halted =>
        /\ pc \in {"check_halted", "return"}
        /\ trace = <<"get_instruments">>
        /\ prices = NoPrices
        /\ margin = NoMargin
        /\ units = 0
        /\ window = NoWindow
        /\ ws = NoStat
        /\ orders = <<>>
        /\ (Returned => outcome = "Skip for trading halted.")

C1_Witness ==
    Returned /\ rate.halted /\ outcome = "Skip for trading halted."

\* _calc_units has returned a unit count in the evaluation under way
UnitsComputed ==
    /\ instrument # None
    /\ error = ""
    /\ \E j \in 1..Len(trace) : trace[j] = "_calc_units"

\* C2: when a non-halted instrument is sized at 0 units the evaluation
\* prints the lack-of-margin skip right after sizing: the history is never
\* fetched, no window statistics, spread check or band check run and no
\* order is submitted.
C2_NoMarginSkipsBeforeStatistics ==
    (UnitsComputed /\ ~rate.halted /\ units = 0) =>
        /\ pc \in {"check_units", "return"}
        /\ trace = <<"get_instruments", "get_prices", "get_account", "_calc_units">>
        /\ window = NoWindow
        /\ ws = NoStat
        /\ side = ""
        /\ orders = <<>>
        /\ (Returned => outcome = "Skip for lack of margin.")

C2_Witness ==
    /\ Returned
    /\ UnitsComputed
    /\ ~rate.halted
    /\ units = 0
    /\ outcome = "Skip for lack of margin."

\* the statistics of this evaluation have been computed
StatComputed ==
    /\ ~rate.halted
    /\ UnitsComputed
    /\ units # 0
    /\ \E j \in 1..Len(trace) : trace[j] = "_calc_window_stat"

\* quote.spread <= std x sigma.max_spread
SpreadOk ==
    RLe(prices[instrument].spread, RMul(ws.std, model.sigma.max_spread))

LastAbove ==
    RLt(ws.up_bound, ws.last)

LastBelow ==
    RLt(ws.last, ws.low_bound)

\* C3: an evaluation submits exactly one order when the instrument is not
\* halted, units # 0, the spread is at most std x max_spread and last is
\* strictly outside the band, and no order in every other case; the side is
\* buy above the band and sell below it; a wider spread prints the spread
\* skip even outside the band, and last inside the band prints the
\* criteria skip.
C3_OrderIffSignal ==
    /\ Len(orders) <= 1
    /\ (pc = "failed" => orders = <<>>)
    /\ Returned =>
        LET signal == StatComputed /\ SpreadOk /\ (LastAbove \/ LastBelow)
        IN  /\ Len(orders) = (IF signal THEN 1 ELSE 0)
            /\ signal =>
                /\ orders[1].side = (IF LastAbove THEN "buy" ELSE "sell")
                /\ orders[1].instrument = instrument
                /\ orders[1].units = units
                /\ outcome = (IF LastAbove THEN "Buy" ELSE "Sell")
            /\ (StatComputed /\ ~SpreadOk) => outcome = "Skip for large spread."
            /\ (StatComputed /\ SpreadOk /\ ~LastAbove /\ ~LastBelow) =>
                   outcome = "Skip by the criteria."

\* a buy order went out
C3_Witness ==
    /\ Returned
    /\ Len(orders) = 1
    /\ orders[1].side = "buy"
    /\ LastAbove
    /\ SpreadOk

\* ticketMargin = ratio.ticket x (avail + used)
TicketMargin ==
    RMul(margin_ratio.ticket, RAdd(margin.avail, margin.used))

\* preserveMargin = ratio.preserve x (avail + used)
PreserveMargin ==
    RMul(margin_ratio.preserve, RAdd(margin.avail, margin.used))

\* ticketMargin < avail - preserveMargin
Sufficient ==
    RLt(RAdd(TicketMargin, PreserveMargin), margin.avail)

\* floor(ticketMargin / marginPerUnit), TooBig from 2^31 on
FloorUnits ==
    FloorQuot(TicketMargin, RMul(bp, rate.marginRate))

\* min(floor(ticketMargin / marginPerUnit), maxTradeUnits)
ExpectedUnits ==
    IF FloorUnits = TooBig \/ FloorUnits > rate.maxTradeUnits
    THEN rate.maxTradeUnits ELSE FloorUnits

\* C4: for a non-halted instrument whose window has the configured size,
\* with last > mean + std x entry_trigger, spread <= std x max_spread and
\* ticketMargin < avail - preserveMargin, the evaluation produces Buy with
\* units = min(floor(ticketMargin / marginPerUnit), maxTradeUnits) and a buy
\* order for exactly that many units is submitted.
C4_EndToEndBuy ==
    (/\ Returned
     /\ ~rate.halted
     /\ UnitsComputed
     /\ Sufficient
     /\ ws # NoStat
     /\ Len(window.midpoints) = model.window.size
     /\ LastAbove
     /\ SpreadOk) =>
        /\ outcome = "Buy"
        /\ Len(orders) = 1
        /\ orders[1].side = "buy"
        /\ orders[1].instrument = instrument
        /\ orders[1].units = ExpectedUnits
        /\ units = ExpectedUnits

(***************************************************************************)
(* Claims about the polling loop (open_deals), checked under Spec and      *)
(* FairSpec.                                                               *)
(***************************************************************************)
\* the loop has ended without a failure
LoopDone ==
    pc = "done"

\* the position of a statement of auto in the order of execution
Rank(p) ==
    CASE p = "get_rate" -> 1
      [] p = "check_halted" -> 2
      [] p = "get_prices" -> 3
      [] p = "get_margin" -> 4
      [] p = "calc_units" -> 5
      [] p = "check_units" -> 6
      [] p = "get_window" -> 7
      [] p = "calc_window_stat" -> 8
      [] p = "decide" -> 9
      [] p = "place_order" -> 10
      [] p = "return" -> 11
      [] OTHER -> 0

\* the steps one iteration can take at most, and those taken so far in
\* the iteration under way
IterationSteps ==
    12 * Len(insts) + 4

StepsTaken ==
    CASE pc = "for" -> 0
      [] pc = "all" -> 12 * Len(insts) + 2
      [] pc = "sleep" -> 12 * Len(insts) + 3
      [] OTHER -> 1 + 12 * (k - 1) + Rank(pc)

\* a bound on the steps the run can still take
Variant ==
    IF pc \in {"done", "failed"} THEN 0
    ELSE (IF n > i THEN (n - i) * IterationSteps ELSE 0) + 1 - StepsTaken

\* C11: with n >= 1 and no failure the loop ends early exactly on the first
\* iteration whose instruments all reported halted; otherwise it runs
\* exactly n iterations; one sleep separates each pair of consecutive
\* iterations and none follows the last; an iteration with an instrument
\* that is not halted never ends the loop before the n-th iteration; the
\* loop always terminates, every step bringing the run closer to its end.
C11_LoopTermination ==
    /\ []((LoopDone /\ n >= 1) =>
            /\ iters = i + 1
            /\ iters <= n
            /\ sleeps = iters - 1
            /\ (AllHalted(flags) \/ iters = n))
    /\ [](pc = "sleep" => (~AllHalted(flags) /\ iters < n /\ sleeps = iters - 1))
    /\ []((pc = "comp" /\ n >= 1) => sleeps = iters - 1)
    /\ [](Variant >= 0 /\ (Variant = 0 <=> pc \in {"done", "failed"}))
    /\ [][Variant' < Variant]_vars

\* n iterations with n - 1 sleeps, the last one not all halted
C11_Witness ==
    /\ LoopDone
    /\ n >= 2
    /\ iters = n
    /\ sleeps = n - 1
    /\ ~AllHalted(flags)


\* the history fetched has another length than the configured size
Mismatched ==
    window # NoWindow /\ Len(window.midpoints) # model.window.size

\* C13: a window whose length differs from the configured size makes
\* _calc_window_stat fail with 'window size not matched' and return no
\* statistics; the failure is not caught, retried or repaired: the
\* evaluation submits no order and nothing runs after the failure, so no
\* later instrument or iteration is evaluated.
C13_WindowSizeMismatchFatal ==
    /\ [](Mismatched =>
            /\ pc \in {"calc_window_stat", "failed"}
            /\ ws = NoStat
            /\ orders = <<>>
            /\ (pc = "failed" => error = "window size not matched"))
    /\ [](error = "window size not matched" =>
            /\ pc = "failed"
            /\ Mismatched
            /\ trace = <<"get_instruments", "get_prices", "get_account", "_calc_units",
                         "get_history", "_calc_window_stat">>)
    /\ [][pc # "failed"]_vars

\* the failure left a second instrument and a second iteration unevaluated
C13_Witness ==
    /\ pc = "failed"
    /\ error = "window size not matched"
    /\ Len(window.midpoints) = model.window.size + 1
    /\ k = 1
    /\ Len(insts) = 2
    /\ iters = 1
    /\ n = 2

\* the calls of the oandapy API an evaluation makes
BrokerCalls ==
    {"get_instruments", "get_prices", "get_account", "get_history", "create_order"}

\* C14: a failure of a broker call (metadata, quotes, account, history,
\* order submission) is never caught or retried: the evaluation ends at the
\* failing call, the polling loop ends with it, and after the failure no
\* further broker call is made and no order is submitted.
C14_BrokerFailureFatal ==
    /\ [](error = BrokerError =>
            /\ pc = "failed"
            /\ trace # <<>>
            /\ trace[Len(trace)] \in BrokerCalls
            /\ orders = <<>>)
    /\ [][error = "" /\ (error' # "" => (pc' = "failed" /\ orders' = orders))]_vars

\* the order submission failed with a second instrument still to evaluate
C14_Witness ==
    /\ pc = "failed"
    /\ error = BrokerError
    /\ trace # <<>>
    /\ trace[Len(trace)] = "create_order"
    /\ orders = <<>>
    /\ k = 1
    /\ Len(insts) = 2

\* C15: measured from the evaluation's start t0, the margin fetch and the
\* unit sizing never start before t0 + 0.5 s and the history fetch never
\* starts before t0 + 1.0 s; _sleep never sleeps a non-positive amount and
\* never past its threshold, so no wait is added when the preceding steps
\* already took that long.
C15_Pacing ==
    /\ pc \in {"get_margin", "calc_units"} => clock >= HalfSecond
    /\ pc = "get_window" => clock >= OneSecond
    /\ Len(naps) <= 2
    /\ \A j \in 1..Len(naps) :
           /\ naps[j].sec \in {HalfSecond, OneSecond}
           /\ naps[j].rest > 0
           /\ naps[j].at + naps[j].rest = naps[j].sec

\* the first threshold had passed when it was tested, the second had not
C15_Witness ==
    /\ pc = "get_window"
    /\ clock = OneSecond
    /\ naps = <<[sec |-> OneSecond, at |-> HalfSecond, rest |-> HalfSecond]>>

\* an evaluation is under way
Evaluating ==
    Rank(pc) > 0

\* C16: within an iteration every instrument of the configured set is
\* evaluated exactly once, in the configured order, one after another (an
\* evaluation has returned before the next begins); the all-halted test
\* is taken only after the whole set has been evaluated, also when an
\* earlier instrument reported not halted.
C16_SequentialEvaluation ==
    /\ Len(evals) <= Len(insts)
    /\ evals = SubSeq(insts, 1, Len(evals))
    /\ Evaluating =>
           /\ evals # <<>>
           /\ instrument = insts[Len(evals)]
           /\ Len(flags) = Len(evals) - 1
    /\ pc = "comp" => Len(flags) = Len(evals)
    /\ pc \in {"all", "sleep"} => (evals = insts /\ Len(flags) = Len(insts))
    /\ (LoopDone /\ iters >= 1) => (evals = insts /\ Len(flags) = Len(insts))

\* the second instrument was evaluated although the first was not halted
C16_Witness ==
    /\ pc = "all"
    /\ Len(insts) = 2
    /\ evals = insts
    /\ ~flags[1]
    /\ flags[2]

\* C17: margin and quotes are read fresh in every evaluation of a
\* non-halted instrument: the margin used for sizing comes from an account
\* fetch made inside the same evaluation, after every earlier order has
\* returned, so it is the broker's margin as changed by all orders submitted
\* before; no margin or quote read in one evaluation is used by a later
\* one.
C17_FreshMarginAndQuotes ==
    /\ pc \in {"comp", "all", "sleep", "for", "done", "get_rate", "check_halted",
               "get_prices"} =>
           (prices = NoPrices /\ margin = NoMargin)
    /\ pc = "get_margin" =>
           (margin = NoMargin /\ trace = <<"get_instruments", "get_prices">>)
    /\ pc \in {"calc_units", "check_units"} =>
           /\ SubSeq(trace, 1, 3) = <<"get_instruments", "get_prices", "get_account">>
           /\ margin = GetMargin(account)
           /\ orders = <<>>

\* the second evaluation of the second iteration, sized on its own fetch
C17_Witness ==
    /\ pc = "check_units"
    /\ Len(evals) = 2
    /\ margin = GetMargin(account)
    /\ account = Account(RInt(1000), RInt(60000))
    /\ iters = 2

(***************************************************************************)
(* SpecUnits: Bollinger._calc_units alone, on arguments drawn from bounded *)
(* sets.  Init is the state of auto at the call; the only step is the call.*)
(***************************************************************************)
UnitsAccountCurrencies ==
    {"USD", "JPY", "EUR", "GBP"}

UnitsInstrumentLists ==
    {<<USD_JPY>>,
     <<USD_JPY, JPY_EUR>>,
     <<USD_JPY, EUR_JPY>>,
     <<USD_JPY, JPY_EUR, EUR_JPY>>,
     <<EUR_JPY, USD_JPY, JPY_EUR>>}

UnitsMarginRatios ==
    {[ticket |-> R(1, 100), preserve |-> R(1, 2)],
     [ticket |-> R(1, 2), preserve |-> R(1, 2)],
     [ticket |-> RInt(0), preserve |-> R(1, 2)]}

UnitsRates(inst) ==
    {[instrument |-> inst, pip |-> R(1, 100), maxTradeUnits |-> mtu,
      maxTrailingStop |-> 10000, minTrailingStop |-> 5,
      marginRate |-> mr, halted |-> FALSE] :
        mtu \in {0, 1000, 10000000}, mr \in {R(1, 50), R(1, 20)}}

\* the ask of every instrument, with the bid 1/32 below it
UnitsAsks ==
    {[p \in {USD_JPY, EUR_JPY, JPY_EUR} |->
        IF p = USD_JPY THEN a ELSE IF p = EUR_JPY THEN RInt(125) ELSE R(1, 120)] :
        a \in {RInt(110), R(3521, 32)}}

UnitsQuotes ==
    {[p \in Range(instrument_list) |-> Quote(RSub(asks[p], R(1, 32)), asks[p])] :
        asks \in UnitsAsks}

UnitsAccounts ==
    {Account(RInt(50000), RInt(0)),
     Account(RInt(1000), RInt(60000)),
     Account(R(1, 100), RInt(0)),
     Account(RInt(40000000), RInt(0)),
     Account(RInt(0), RInt(0))}

InitUnits ==
    /\ account_currency \in UnitsAccountCurrencies
    /\ instrument_list \in UnitsInstrumentLists
    /\ margin_ratio \in UnitsMarginRatios
    /\ model \in Models
    /\ instrument \in Range(instrument_list) \ {JPY_EUR}
    /\ insts = <<instrument>>
    /\ n = 1
    /\ i = 0
    /\ k = 1
    /\ flags = <<>>
    /\ sleeps = 0
    /\ iters = 1
    /\ evals = <<instrument>>
    /\ pc = "calc_units"
    /\ rate \in UnitsRates(instrument)
    /\ \E q \in UnitsQuotes : prices = GetPrices(q)
    /\ account \in UnitsAccounts
    /\ margin = GetMargin(account)
    /\ bp = Zero
    /\ units = 0
    /\ window = NoWindow
    /\ ws = NoStat
    /\ side = ""
    /\ clock = HalfSecond
    /\ naps = <<[sec |-> HalfSecond, at |-> 0, rest |-> HalfSecond]>>
    /\ orders = <<>>
    /\ outcome = ""
    /\ error = ""
    /\ trace = <<"get_instruments", "get_prices", "get_account">>

NextUnits ==
    AutoCalcUnits

SpecUnits ==
    InitUnits /\ [][NextUnits]_vars

\* _calc_units has returned its unit count
UnitsDone ==
    pc = "check_units"

\* C5 as stated: the result is 0 if and only if ticketMargin >= avail -
\* preserveMargin.
C5_ZeroIffInsufficient ==
    UnitsDone => (units = 0 <=> ~Sufficient)

\* C5 as amended: the result is 0 whenever ticketMargin >= avail -
\* preserveMargin; with sufficient margin it is also 0 when the floor value
\* is 0 or (the floor fitting 32 bits) maxTradeUnits is 0, and it is not 0
\* when the floor value is at least 1 and maxTradeUnits # 0.
C5_ZeroWhenInsufficientOrNoUnit ==
    UnitsDone =>
        /\ ~Sufficient => units = 0
        /\ (Sufficient /\ FloorUnits = 0) => units = 0
        /\ (Sufficient /\ FloorUnits # TooBig /\ rate.maxTradeUnits = 0) => units = 0
        /\ (Sufficient /\ FloorUnits # 0 /\ rate.maxTradeUnits # 0) => units # 0

\* sufficient margin, yet a ticket smaller than the margin of one unit
C5_Witness ==
    /\ UnitsDone
    /\ Sufficient
    /\ FloorUnits = 0
    /\ rate.maxTradeUnits # 0
    /\ units = 0

\* C6: the result is a non-negative integer that never exceeds
\* maxTradeUnits: the floor value when that is at most maxTradeUnits,
\* maxTradeUnits when the floor value exceeds it, however large the floor
\* value is.
C6_UnitsWithinLimits ==
    UnitsDone =>
        /\ 0 <= units
        /\ units <= rate.maxTradeUnits
        /\ Sufficient => units = ExpectedUnits

Known(inst) ==
    \E j \in 1..Len(instrument_list) : instrument_list[j] = inst

Ask(inst) ==
    prices[inst].ask

\* C7: the conversion price is 1/ask when BASE is the account currency A;
\* else ask when QUOTE is A; else ask x ask(QUOTE_A) when QUOTE_A is a known
\* instrument, also when A_QUOTE is known too; else ask / ask(A_QUOTE) when
\* A_QUOTE is known; otherwise the call fails with 'invalid instruments'
\* and returns no unit count.
C7_ConversionPrecedence ==
    (pc \in {"check_units", "failed"}) =>
        LET base == instrument[1]
            quote == instrument[3]
            QUOTE_A == <<quote, "_", account_currency>>
            A_QUOTE == <<account_currency, "_", quote>>
            resolved == error = "" /\ pc = "check_units"
        IN  IF base = account_currency
            THEN resolved /\ bp = R(Ask(instrument).d, Ask(instrument).n)
            ELSE IF quote = account_currency
            THEN resolved /\ bp = Ask(instrument)
            ELSE IF Known(QUOTE_A)
            THEN resolved /\ bp = RMul(Ask(instrument), Ask(QUOTE_A))
            ELSE IF Known(A_QUOTE)
            THEN resolved /\ bp = RDiv(Ask(instrument), Ask(A_QUOTE))
            ELSE error = "invalid instruments" /\ pc = "failed" /\ units = 0

\* both cross instruments are known and the first pairing was used
C7_Witness ==
    /\ UnitsDone
    /\ instrument = USD_JPY
    /\ account_currency = "EUR"
    /\ Known(JPY_EUR)
    /\ Known(EUR_JPY)
    /\ bp = RMul(Ask(USD_JPY), Ask(JPY_EUR))
    /\ bp # RDiv(Ask(USD_JPY), Ask(EUR_JPY))

\* C8 as stated: for USD_JPY, account currency EUR and a known JPY_EUR the
\* conversion price is ask(USD_JPY) / ask(JPY_EUR); for account currency
\* USD it is 1/ask(USD_JPY); for account currency JPY it is ask(USD_JPY).
C8_CrossExampleDivides ==
    (UnitsDone /\ instrument = USD_JPY) =>
        /\ (account_currency = "EUR" /\ Known(JPY_EUR)) =>
               bp = RDiv(Ask(USD_JPY), Ask(JPY_EUR))
        /\ account_currency = "USD" => bp = RDiv(RInt(1), Ask(USD_JPY))
        /\ account_currency = "JPY" => bp = Ask(USD_JPY)

\* C8 as amended: for USD_JPY, account currency EUR and a known JPY_EUR the
\* conversion price is ask(USD_JPY) x ask(JPY_EUR), the pair (JPY, EUR)
\* being tried before (EUR, JPY); for USD it is 1/ask(USD_JPY); for JPY it
\* is ask(USD_JPY).
C8_CrossExampleMultiplies ==
    (UnitsDone /\ instrument = USD_JPY) =>
        /\ (account_currency = "EUR" /\ Known(JPY_EUR)) =>
               bp = RMul(Ask(USD_JPY), Ask(JPY_EUR))
        /\ account_currency = "USD" => bp = RDiv(RInt(1), Ask(USD_JPY))
        /\ account_currency = "JPY" => bp = Ask(USD_JPY)

C8_Witness ==
    /\ UnitsDone
    /\ instrument = USD_JPY
    /\ account_currency = "EUR"
    /\ Known(JPY_EUR)
    /\ ~Known(EUR_JPY)
    /\ bp = RMul(Ask(USD_JPY), Ask(JPY_EUR))

(***************************************************************************)
(* SpecOrder: Bollinger._place_order called by itself, on arguments drawn  *)
(* from bounded sets, the side also ranging over a value auto never        *)
(* passes; no step of auto precedes the call, and the only step is the     *)
(* call.                                                                   *)
(***************************************************************************)
OrderSides ==
    {"buy", "sell", "hold"}

\* ws['std'] of the window
OrderStds ==
    {R(1, 128), R(1, 8), RInt(1), RInt(3), RInt(400)}

OrderAsks ==
    {R(3521, 32), R(7043, 64), RInt(112), RInt(20000)}

OrderSpreads ==
    {R(1, 32), R(1, 64)}

OrderQuotes ==
    {[p \in {USD_JPY} |-> Quote(RSub(a, sp), a)] : a \in OrderAsks, sp \in OrderSpreads}

OrderRates(inst) ==
    {[instrument |-> inst, pip |-> R(1, 100), maxTradeUnits |-> 10000000,
      maxTrailingStop |-> mx, minTrailingStop |-> mn,
      marginRate |-> R(1, 50), halted |-> FALSE] :
        mx \in {10000, 500}, mn \in {5, 50}}

\* window statistics with the given std that make auto choose sd_side
OrderStat(inst, q, sd, sd_side) ==
    LET mean == RMul(RAdd(q.bid, q.ask), R(1, 2))
        up == RAdd(mean, RMul(sd, model.sigma.entry_trigger))
        low == RSub(mean, RMul(sd, model.sigma.entry_trigger))
    IN  [instrument |-> inst,
         last |-> IF sd_side = "buy" THEN RAdd(up, R(1, 4))
                  ELSE IF sd_side = "sell" THEN RSub(low, R(1, 4))
                  ELSE mean,
         mean |-> mean, std |-> sd, up_bound |-> up, low_bound |-> low]

InitOrder ==
    /\ account_currency = "JPY"
    /\ instrument_list = <<USD_JPY>>
    /\ margin_ratio \in MarginRatios
    /\ model \in Models
    /\ instrument = USD_JPY
    /\ insts = <<instrument>>
    /\ n = 1
    /\ i = 0
    /\ k = 1
    /\ flags = <<>>
    /\ sleeps = 0
    /\ iters = 1
    /\ evals = <<instrument>>
    /\ pc = "place_order"
    /\ rate \in OrderRates(instrument)
    /\ \E q \in OrderQuotes : prices = GetPrices(q)
    /\ account = Account(RInt(50000), RInt(0))
    /\ margin = GetMargin(account)
    /\ bp = prices[instrument].ask
    /\ units \in {1, 1000}
    /\ window = NoWindow
    /\ side \in OrderSides
    /\ \E sd \in OrderStds :
           /\ RLe(RMul(RInt(8), sd), prices[instrument].bid)
           /\ ws = OrderStat(instrument, prices[instrument], sd, side)
    /\ clock = 0
    /\ naps = <<>>
    /\ orders = <<>>
    /\ outcome = ""
    /\ error = ""
    /\ trace = <<>>

NextOrder ==
    AutoPlaceOrder

SpecOrder ==
    InitOrder /\ [][NextOrder]_vars

\* ceil((std x sigma.trailing_stop + spread) / pip) clipped into
\* [minTrailingStop, maxTrailingStop]
ExpectedTrailingStop ==
    LET c == CeilQuot(RAdd(RMul(ws.std, model.sigma.trailing_stop),
                           prices[instrument].spread), rate.pip)
    IN  IF c > rate.maxTrailingStop THEN rate.maxTrailingStop
        ELSE IF c < rate.minTrailingStop THEN rate.minTrailingStop
        ELSE c

\* C9: for every submitted order the trailing-stop pip count lies in
\* [minTrailingStop, maxTrailingStop] and equals
\* ceil((std x sigma.trailing_stop + spread) / pip) when that value is
\* inside the interval, minTrailingStop when it is below and
\* maxTrailingStop when it is above, however extreme std and spread are.
C9_TrailingStopClamped ==
    \A j \in 1..Len(orders) :
        /\ rate.minTrailingStop <= orders[j].trailingStop
        /\ orders[j].trailingStop <= rate.maxTrailingStop
        /\ orders[j].trailingStop = ExpectedTrailingStop

\* C10: a buy order carries stopLoss = ask - std x sigma.stop_loss and
\* takeProfit = ask + std x sigma.take_profit, a sell order carries
\* stopLoss = bid + std x sigma.stop_loss and takeProfit = bid - std x
\* sigma.take_profit, so a buy has stopLoss <= ask <= takeProfit and a sell
\* has takeProfit <= bid <= stopLoss.
C10_StopLossTakeProfitExact ==
    \A j \in 1..Len(orders) :
        LET od == orders[j]
            q == prices[instrument]
            stop_p == RMul(ws.std, model.sigma.stop_loss)
            profit_p == RMul(ws.std, model.sigma.take_profit)
        IN  /\ od.side = "buy" =>
                /\ od.stopLoss = RSub(q.ask, stop_p)
                /\ od.takeProfit = RAdd(q.ask, profit_p)
                /\ RLe(od.stopLoss, q.ask)
                /\ RLe(q.ask, od.takeProfit)
            /\ od.side = "sell" =>
                /\ od.stopLoss = RAdd(q.bid, stop_p)
                /\ od.takeProfit = RSub(q.bid, profit_p)
                /\ RLe(od.takeProfit, q.bid)
                /\ RLe(q.bid, od.stopLoss)

(***************************************************************************)
(* SpecStat: Bollinger._calc_window_stat alone, on windows drawn from a    *)
(* bounded set.  Init is the state of auto at the call; the only step is   *)
(* the call.                                                               *)
(***************************************************************************)
\* closeMid values as the broker quotes them, decimal ones included
StatCandles ==
    {Flat(WindowSize, RInt(110)),
     Flat(WindowSize, R(1101, 10)),
     Jump(WindowSize, RInt(110), RInt(111)),
     Jump(WindowSize, RInt(110), RInt(109)),
     Zigzag(WindowSize, RInt(109), RInt(111)),
     Zigzag(WindowSize, R(1101, 10), R(1103, 10)),
     Zigzag(WindowSize, R(439, 4), R(441, 4)),
     Flat(WindowSize - 1, RInt(110)),
     Jump(WindowSize - 1, RInt(110), RInt(111)),
     Zigzag(WindowSize - 1, RInt(109), RInt(111)),
     Flat(WindowSize + 1, RInt(110)),
     Jump(WindowSize + 1, RInt(110), RInt(111)),
     Zigzag(WindowSize + 1, RInt(109), RInt(111)),
     <<>>}

InitStat ==
    /\ account_currency = "JPY"
    /\ instrument_list \in InstrumentLists
    /\ margin_ratio \in MarginRatios
    /\ model \in Models
    /\ instrument \in {USD_JPY, EUR_JPY}
    /\ insts = <<instrument>>
    /\ n = 1
    /\ i = 0
    /\ k = 1
    /\ flags = <<>>
    /\ sleeps = 0
    /\ iters = 1
    /\ evals = <<instrument>>
    /\ pc = "calc_window_stat"
    /\ rate \in {r \in Rates(instrument) : ~r.halted}
    /\ \E q \in Quotes : prices = GetPrices(q)
    /\ account = Account(RInt(50000), RInt(0))
    /\ margin = GetMargin(account)
    /\ bp = prices[instrument].ask
    /\ units \in {1, 1000}
    /\ \E c \in StatCandles : window = GetWindow(instrument, c)
    /\ ws = NoStat
    /\ side = ""
    /\ clock = 0
    /\ naps = <<>>
    /\ orders = <<>>
    /\ outcome = ""
    /\ error = ""
    /\ trace = <<"get_instruments", "get_prices", "get_account", "_calc_units",
                 "get_history">>

NextStat ==
    AutoCalcWindowStat

SpecStat ==
    InitStat /\ [][NextStat]_vars

\* _calc_window_stat has returned its statistics
StatDone ==
    pc = "decide"

\* C12: for a window of the configured size, last is the window's final
\* element taken verbatim and the bounds are symmetric around the mean:
\* up_bound - mean = mean - low_bound = std x entry_trigger, mean being the
\* mean of the whole window.
C12_StatExactAndSymmetric ==
    StatDone =>
        /\ Len(window.midpoints) = model.window.size
        /\ ws.last = window.midpoints[Len(window.midpoints)]
        /\ ws.mean = Mean(window.midpoints)
        /\ RSub(ws.up_bound, ws.mean) = RMul(ws.std, model.sigma.entry_trigger)
        /\ RSub(ws.mean, ws.low_bound) = RMul(ws.std, model.sigma.entry_trigger)

(***************************************************************************)
(* SpecSides: the runs of open_deals together with the direct calls of     *)
(* _place_order, each continued by Next.                                   *)
(***************************************************************************)
InitSides ==
    Init \/ InitOrder

SpecSides ==
    InitSides /\ [][Next]_vars

\* auto has chosen the side of this evaluation
Decided ==
    \E j \in 1..Len(trace) : trace[j] = "decide"

\* C18: in every run of open_deals _place_order is only invoked with side
\* buy or sell, so 'invalid side' is never raised there; a direct call with
\* any other side fails with 'invalid side' before create_order is called.
C18_InvalidSideUnreachable ==
    /\ Decided =>
           /\ side \in {"", "buy", "sell"}
           /\ error # "invalid side"
           /\ (pc = "place_order" => side \in {"buy", "sell"})
    /\ side \notin {"", "buy", "sell"} =>
           /\ pc \in {"place_order", "failed"}
           /\ orders = <<>>
           /\ (pc = "failed" => error = "invalid side")
    /\ error = "invalid side" =>
           /\ pc = "failed"
           /\ side \notin {"buy", "sell"}
           /\ orders = <<>>
           /\ trace = <<"_place_order">>

\* a direct call with side 'hold' has failed
C18_Witness ==
    /\ pc = "failed"
    /\ error = "invalid side"
    /\ side = "hold"
    /\ orders = <<>>

\* the window fetched has the configured size and all its midpoints equal
FlatWindow ==
    /\ window # NoWindow
    /\ WindowSizeMatched(window)
    /\ \A j \in 1..Len(window.midpoints) :
           window.midpoints[j] = window.midpoints[1]

\* C19: a correctly sized window whose midpoints are all equal has std = 0
\* and last = mean = up_bound = low_bound, and its evaluation submits no
\* order: a positive spread ends in the large-spread skip, any other spread
\* in the skip by the criteria.
C19_ZeroVolatilityNeverTrades ==
    FlatWindow =>
        /\ orders = <<>>
        /\ side = ""
        /\ pc \in {"calc_window_stat", "decide", "return"}
        /\ pc # "calc_window_stat" =>
               /\ ws.std = Zero
               /\ MaxSpread(ws) = Zero
               /\ ws.last = ws.mean
               /\ ws.up_bound = ws.mean
               /\ ws.low_bound = ws.mean
        /\ Returned =>
               outcome = IF RLt(Zero, prices[instrument].spread)
                         THEN "Skip for large spread."
                         ELSE "Skip by the criteria."

\* a flat window of a value float32 does not hold, evaluated at zero spread
C19_Witness ==
    /\ FlatWindow
    /\ Returned
    /\ window.midpoints[1] = R(1103, 10)
    /\ ws.last # window.midpoints[1]
    /\ prices[instrument].spread = Zero
    /\ outcome = "Skip by the criteria."

\* C20: with no instrument and n >= 1 the loop makes exactly one iteration
\* with no evaluation, takes it as all halted and ends without sleeping;
\* with n <= 0 it makes no iteration, no evaluation and no sleep; in both
\* cases no broker call is made and no order is submitted.
C20_DegenerateLoopInputs ==
    /\ (insts = <<>> \/ n <= 0) =>
           /\ pc \in {"for", "comp", "all", "done"}
           /\ sleeps = 0
           /\ evals = <<>>
           /\ trace = <<>>
           /\ orders = <<>>
           /\ error = ""
    /\ (insts = <<>> /\ n >= 1) =>
           /\ iters <= 1
           /\ pc \in {"comp", "all", "done"} => (iters = 1 /\ flags = <<>>)
    /\ n <= 0 =>
           /\ pc \in {"for", "done"}
           /\ iters = 0

\* the loop over no instrument has ended with n = 2
C20_Witness ==
    /\ LoopDone
    /\ insts = <<>>
    /\ n = 2
    /\ iters = 1
    /\ sleeps = 0

====
